---- MODULE Spec2Model ----
(***************************************************************************)
(* A model of task-timer: the Pomodoro phase scheduler (src/timer.rs), the *)
(* application loop and task selector (src/lib.rs), and the calendar sync  *)
(* manager with its date parser (src/calendar.rs).                         *)
(*                                                                         *)
(* Time is counted in whole time units (the seconds of the settings).      *)
(***************************************************************************)
EXTENDS Integers, Sequences, FiniteSets, TLC

VARIABLES
    settings,       \* TimerSettings: work_time, short_rest_time, long_rest_time, long_rest_interval
    timer,          \* Timer: the phase enum with its payload
    clock,          \* Instant::now(), the monotonic clock
    call,           \* the last Timer::tick call: its skip argument and return value
    states,         \* the phase tags in the order they were entered since the last start
    ticked,         \* a tick has been made at the current clock value
    regular,        \* since the phase was entered, ticks came exactly once per time unit
    remaining,      \* the last Timer::remaining call: its now and the Duration it returned
    events,         \* Application::events, the Calendar enum
    chosen_event,   \* Application::chosen_event, Option<Event>
    paused_for,     \* Application::paused_for
    paused_at,      \* Application::paused_at, Option<Instant>
    alive,          \* the process has not panicked or aborted
    candidates,     \* choose_event's repeat counts, one per entry of the Ready list
    tasks,          \* the background tasks spawned by Calendar::reset, in spawn order
    ready_gen,      \* the number of the task whose result the Ready state holds (0: none)
    frame,          \* what the last call of Application::update did
    pause,          \* the time spent paused, and the frame that began the pause going on
    input,          \* the text handed to parse_ical_date
    parsed          \* what parse_ical_date made of it

timerVars == <<settings, timer, clock, call, states, ticked, regular, remaining>>

appVars == <<events, chosen_event, paused_for, paused_at, alive, candidates, frame, pause>>

calVars == <<tasks, ready_gen>>

parseVars == <<input, parsed>>

vars == <<settings, timer, clock, call, states, ticked, regular, remaining,
          events, chosen_event, paused_for, paused_at, alive, candidates,
          tasks, ready_gen, frame, pause, input, parsed>>

\* ------------------------------------------------------------------ bounds

MaxDur == 2         \* the phase durations range over 0..MaxDur
MaxInterval == 3    \* long_rest_interval ranges over 0..MaxInterval
MaxTime == 6        \* the clock stops advancing at MaxTime
MaxHist == 8        \* phase changes recorded since a start

Max(a, b) == IF a >= b THEN a ELSE b

\* ------------------------------------------------------------------ timer.rs

\* enum Timer { NotRunning, Working(u8, Instant), ShortBreak(u8, Instant), LongBreak(Instant) }
NotRunning == [tag |-> "NotRunning", n |-> 0, started |-> 0]
Working(n, t) == [tag |-> "Working", n |-> n, started |-> t]
ShortBreak(n, t) == [tag |-> "ShortBreak", n |-> n, started |-> t]
LongBreak(t) == [tag |-> "LongBreak", n |-> 0, started |-> t]

\* struct TimerSettings: three durations in seconds and a u8 interval
TimerSettings ==
    [work_time : 0..MaxDur, short_rest_time : 0..MaxDur,
     long_rest_time : 0..MaxDur, long_rest_interval : 0..MaxInterval]

\* (now - started_at).as_secs_f64(): Instant - Instant saturates at zero
SecsSince(now, started_at) == IF now >= started_at THEN now - started_at ELSE 0

\* Timer::start
Timer_start(now) == Working(0, now)

\* Timer::stop
Timer_stop == NotRunning

\* Timer::tick with the long break taken one work phase late (> for >=)
Timer_tick_late(self, s, now, skip) ==
    CASE self.tag = "Working"
           /\ (skip \/ SecsSince(now, self.started) >= s.work_time) ->
             LET since_last_lbreak == self.n + 1 IN
             [timer |-> IF since_last_lbreak > s.long_rest_interval
                        THEN LongBreak(now)
                        ELSE ShortBreak(since_last_lbreak, now),
              ret |-> TRUE]
      [] self.tag = "ShortBreak"
           /\ (skip \/ SecsSince(now, self.started) >= s.short_rest_time) ->
             [timer |-> Working(self.n, now), ret |-> TRUE]
      [] self.tag = "LongBreak"
           /\ (skip \/ SecsSince(now, self.started) >= s.long_rest_time) ->
             [timer |-> Working(0, now), ret |-> TRUE]
      [] OTHER -> [timer |-> self, ret |-> FALSE]

\* Timer::tick counting the cycle again when the short break ends
Timer_tick_recount(self, s, now, skip) ==
    CASE self.tag = "Working"
           /\ (skip \/ SecsSince(now, self.started) >= s.work_time) ->
             LET since_last_lbreak == self.n + 1 IN
             [timer |-> IF since_last_lbreak >= s.long_rest_interval
                        THEN LongBreak(now)
                        ELSE ShortBreak(since_last_lbreak, now),
              ret |-> TRUE]
      [] self.tag = "ShortBreak"
           /\ (skip \/ SecsSince(now, self.started) >= s.short_rest_time) ->
             [timer |-> Working(self.n + 1, now), ret |-> TRUE]
      [] self.tag = "LongBreak"
           /\ (skip \/ SecsSince(now, self.started) >= s.long_rest_time) ->
             [timer |-> Working(0, now), ret |-> TRUE]
      [] OTHER -> [timer |-> self, ret |-> FALSE]

\* Timer::tick leaving a phase only after its duration has passed (> for >=)
Timer_tick_strict(self, s, now, skip) ==
    CASE self.tag = "Working"
           /\ (skip \/ SecsSince(now, self.started) > s.work_time) ->
             LET since_last_lbreak == self.n + 1 IN
             [timer |-> IF since_last_lbreak >= s.long_rest_interval
                        THEN LongBreak(now)
                        ELSE ShortBreak(since_last_lbreak, now),
              ret |-> TRUE]
      [] self.tag = "ShortBreak"
           /\ (skip \/ SecsSince(now, self.started) > s.short_rest_time) ->
             [timer |-> Working(self.n, now), ret |-> TRUE]
      [] self.tag = "LongBreak"
           /\ (skip \/ SecsSince(now, self.started) > s.long_rest_time) ->
             [timer |-> Working(0, now), ret |-> TRUE]
      [] OTHER -> [timer |-> self, ret |-> FALSE]

\* Timer::tick: the new value of *self and the returned bool
Timer_tick(self, s, now, skip) ==
    CASE self.tag = "Working"
           /\ (skip \/ SecsSince(now, self.started) >= s.work_time) ->
             LET since_last_lbreak == self.n + 1 IN
             [timer |-> IF since_last_lbreak >= s.long_rest_interval
                        THEN LongBreak(now)
                        ELSE ShortBreak(since_last_lbreak, now),
              ret |-> TRUE]
      [] self.tag = "ShortBreak"
           /\ (skip \/ SecsSince(now, self.started) >= s.short_rest_time) ->
             [timer |-> Working(self.n, now), ret |-> TRUE]
      [] self.tag = "LongBreak"
           /\ (skip \/ SecsSince(now, self.started) >= s.long_rest_time) ->
             [timer |-> Working(0, now), ret |-> TRUE]
      [] OTHER -> [timer |-> self, ret |-> FALSE]

\* Timer::remaining returning the difference as a signed number
Timer_remaining_signed(self, now, s) ==
    CASE self.tag = "NotRunning" -> 0
      [] self.tag = "Working" -> (self.started + s.work_time) - now
      [] self.tag = "ShortBreak" -> (self.started + s.short_rest_time) - now
      [] self.tag = "LongBreak" -> (self.started + s.long_rest_time) - now

\* Timer::remaining: a Duration, which has no sign; Instant - Instant is
\* duration_since, which gives zero when the right operand is the later one
Timer_remaining(self, now, s) ==
    CASE self.tag = "NotRunning" -> 0
      [] self.tag = "Working" -> SecsSince(self.started + s.work_time, now)
      [] self.tag = "ShortBreak" -> SecsSince(self.started + s.short_rest_time, now)
      [] self.tag = "LongBreak" -> SecsSince(self.started + s.long_rest_time, now)

\* Timer::working
Timer_working(self) == self.tag = "Working"

\* Timer::running
Timer_running(self) == self.tag # "NotRunning"

\* ------------------------------------------------------------------ calendar.rs: the data

\* Option<T>
None == [some |-> FALSE, v |-> 0]
Some(x) == [some |-> TRUE, v |-> x]

\* struct Event, without the fields no decision reads (date_stamp, summary)
Event(uid, starts, due, priority) ==
    [uid |-> uid, starts |-> starts, due |-> due, priority |-> priority]

\* enum Calendar { Working(Option<JoinHandle<Vec<Event>>>), Ready(Vec<Event>) }; a
\* JoinHandle is the number of the spawned task
Ready(list) == [state |-> "Ready", list |-> list, handle |-> None]
InFlight(handle) == [state |-> "Working", list |-> <<>>, handle |-> handle]

\* no call of parse_ical_date yet
NotParsed == [kind |-> "NotParsed"]

\* ------------------------------------------------------------------ lib.rs: the data

\* struct Application: the fields that change, with what the current call leaves
\* behind: choose_event's candidate counts and the calls of Timer::ping (the bodies
\* of the notifications shown)
Self ==
    [timer |-> timer, events |-> events, chosen_event |-> chosen_event,
     paused_for |-> paused_for, paused_at |-> paused_at, alive |-> alive,
     candidates |-> <<>>, tasks |-> tasks, ready_gen |-> ready_gen,
     notified |-> <<>>]

\* what is recorded of a call of Application::update: whether Application::tick ran,
\* the button clicked, the phase and the sync state after Application::tick, whether
\* a task was shown before the call and after Application::tick, the notifications
\* shown and the phases entered, the pause-adjusted now and the remaining time drawn
NoFrame ==
    [ran |-> FALSE, ticked |-> FALSE, click |-> "none", mid_tag |-> "NotRunning",
     mid_ready |-> FALSE, mid_len |-> 0, shown_before |-> FALSE, shown_mid |-> FALSE,
     notified |-> <<>>, entered |-> <<>>, now |-> 0, remaining |-> 0]

\* what is remembered of the pauses: the time units that passed while paused, and of
\* the frame in which Pause was clicked last its now and the remaining time it drew,
\* with whether the phase is still as that frame left it
NoPause == [idle |-> 0, now |-> 0, remaining |-> 0, kept |-> FALSE]

\* ------------------------------------------------------------------ the timer driven alone

\* what is recorded of a Timer::tick call: its arguments, *self before it, the bool
\* it returned, and whether it was the one tick of its time unit in a phase ticked
\* once per time unit since it was entered
NoCall ==
    [made |-> FALSE, skip |-> FALSE, ret |-> FALSE, before |-> NotRunning, now |-> 0,
     once |-> FALSE]

\* what is recorded of a Timer::remaining call: its now and the seconds of the
\* Duration it returned
NoRemaining == [made |-> FALSE, now |-> 0, value |-> 0]

InitTimer ==
    /\ settings \in TimerSettings
    /\ timer = NotRunning
    /\ clock = 0
    /\ call = NoCall
    /\ states = <<>>
    /\ ticked = FALSE
    /\ regular = FALSE
    /\ remaining = NoRemaining
    /\ events = Ready(<<>>)
    /\ chosen_event = None
    /\ paused_for = 0
    /\ paused_at = None
    /\ alive = TRUE
    /\ candidates = <<>>
    /\ tasks = <<>>
    /\ ready_gen = 0
    /\ frame = NoFrame
    /\ pause = NoPause
    /\ input = <<>>
    /\ parsed = NotParsed

\* timer.start(now)
DoStart ==
    /\ timer' = Timer_start(clock)
    /\ states' = <<"Working">>
    /\ call' = NoCall
    /\ remaining' = NoRemaining
    /\ ticked' = TRUE
    /\ regular' = TRUE
    /\ UNCHANGED <<settings, clock>>
    /\ UNCHANGED appVars
    /\ UNCHANGED calVars
    /\ UNCHANGED parseVars

\* timer.stop()
DoStop ==
    /\ timer' = Timer_stop
    /\ states' = <<>>
    /\ call' = NoCall
    /\ remaining' = NoRemaining
    /\ regular' = FALSE
    /\ UNCHANGED <<settings, clock, ticked>>
    /\ UNCHANGED appVars
    /\ UNCHANGED calVars
    /\ UNCHANGED parseVars

\* timer.tick(&settings, now, skip) at the current clock value
DoTick ==
    \E skip \in BOOLEAN :
        LET r == Timer_tick(timer, settings, clock, skip) IN
        /\ Len(states) < MaxHist
        /\ timer' = r.timer
        /\ call' = [made |-> TRUE, skip |-> skip, ret |-> r.ret, before |-> timer,
                     now |-> clock, once |-> regular /\ ~ticked]
        /\ states' = IF r.ret THEN Append(states, r.timer.tag) ELSE states
        /\ ticked' = TRUE
        /\ regular' = IF r.ret THEN TRUE ELSE (regular /\ ~ticked)
        /\ remaining' = NoRemaining
        /\ UNCHANGED <<settings, clock>>
        /\ UNCHANGED appVars
        /\ UNCHANGED calVars
        /\ UNCHANGED parseVars

\* one time unit passes
Advance ==
    /\ clock < MaxTime
    /\ clock' = clock + 1
    /\ call' = NoCall
    /\ ticked' = FALSE
    /\ regular' = (regular /\ ticked)
    /\ remaining' = NoRemaining
    /\ UNCHANGED <<settings, timer, states>>
    /\ UNCHANGED appVars
    /\ UNCHANGED calVars
    /\ UNCHANGED parseVars

\* timer.remaining(now, &settings) at the current clock value
DoRemaining ==
    /\ remaining' = [made |-> TRUE, now |-> clock,
                      value |-> Timer_remaining(timer, clock, settings)]
    /\ UNCHANGED <<settings, timer, clock, call, states, ticked, regular>>
    /\ UNCHANGED appVars
    /\ UNCHANGED calVars
    /\ UNCHANGED parseVars

NextTimer == DoStart \/ DoStop \/ DoTick \/ Advance \/ DoRemaining

SpecTimer == InitTimer /\ [][NextTimer]_vars

\* ------------------------------------------------------------------ lib.rs: choose_event

I8Min == -128
I8Max == 127
I16Min == -32768
I16Max == 32767

\* i16::saturating_mul(2)
SaturatingMul2(x) ==
    IF 2 * x > I16Max THEN I16Max ELSE IF 2 * x < I16Min THEN I16Min ELSE 2 * x

\* the filter closure: the event may be chosen now
Eligible(event, now) == IF event.starts.some THEN event.starts.v < now ELSE TRUE

\* the i16 `priority` of the flat_map closure with the overdue floor left out
RepeatPriority_nofloor(event, now) ==
    LET priority == 12 - event.priority IN
    IF event.due.some /\ event.due.v < now
    THEN SaturatingMul2(priority)
    ELSE priority

\* the i16 `priority` of the flat_map closure
RepeatPriority(event, now) ==
    LET priority == 12 - event.priority IN
    IF event.due.some /\ event.due.v < now
    THEN Max(SaturatingMul2(priority), 1)
    ELSE priority

\* `priority as usize`: a negative i16 is sign-extended, so it wraps to x + 2^64;
\* wrapped says so, since 2^64 is beyond the integers of the model checker
AsUsize(x) == [wrapped |-> x < 0, value |-> x]

\* std::iter::repeat(event).take(priority as usize): how often the entry is repeated;
\* a filtered-out entry is not repeated at all
RepeatCount(event, now) ==
    IF Eligible(event, now) THEN AsUsize(RepeatPriority(event, now)) ELSE AsUsize(0)

\* candidate_events, as the repeat count of each entry of the list
CandidateCounts(list, now) == [i \in 1..Len(list) |-> RepeatCount(list[i], now)]

\* collecting a wrapped count asks for about 2^64 references: the allocation fails
\* and the process aborts
CollectAborts(counts) == \E i \in 1..Len(counts) : counts[i].wrapped

\* candidate_events.choose(&mut rng).map(clone): every result the rng can give
ChooseResults(list, counts) ==
    IF \A i \in 1..Len(counts) : counts[i].value = 0
    THEN {None}
    ELSE {Some(list[i]) : i \in {j \in 1..Len(counts) : counts[j].value > 0}}

\* Application::choose_event on the fields of self it touches, with local_now the
\* value of Local::now(): every outcome the rng allows
choose_event(self, local_now) ==
    IF self.events.state # "Ready"
    THEN {self}
    ELSE LET now == local_now - self.paused_for
             counts == CandidateCounts(self.events.list, now) IN
         IF CollectAborts(counts)
         THEN {[self EXCEPT !.candidates = counts, !.alive = FALSE]}
         ELSE {[self EXCEPT !.candidates = counts, !.chosen_event = c] :
                  c \in ChooseResults(self.events.list, counts)}

\* ------------------------------------------------------------------ the selector driven alone

MaxSelectTime == 3  \* the instants of the selector's runs range over 1..MaxSelectTime

\* the starts and due fields of the tasks fed to the selector
SelectTimes == {None} \cup {Some(t) : t \in 1..MaxSelectTime}

\* every task over the whole range of the i8 priority field
SelectTasks ==
    {Event("a", st, du, pr) : st \in SelectTimes, du \in SelectTimes, pr \in I8Min..I8Max}

\* a few tasks to pair up: eligible or not, overdue or not, weight zero or not
PairTasks ==
    {Event(u, st, du, pr) : u \in {"a", "b"}, st \in {None, Some(MaxSelectTime)},
                            du \in {None, Some(1)}, pr \in {1, 11, 12}}

InitSelect ==
    /\ settings = [work_time |-> 1, short_rest_time |-> 1, long_rest_time |-> 1,
                   long_rest_interval |-> 1]
    /\ timer = NotRunning
    /\ clock \in 1..MaxSelectTime
    /\ call = NoCall
    /\ states = <<>>
    /\ ticked = FALSE
    /\ regular = FALSE
    /\ remaining = NoRemaining
    /\ events \in {Ready(<<>>)} \cup {Ready(<<e>>) : e \in SelectTasks}
                  \cup {Ready(<<a, b>>) : a \in PairTasks, b \in PairTasks}
    /\ chosen_event = None
    /\ paused_for = 0
    /\ paused_at = None
    /\ alive = TRUE
    /\ candidates = <<>>
    /\ tasks = <<>>
    /\ ready_gen = 0
    /\ frame = NoFrame
    /\ pause = NoPause
    /\ input = <<>>
    /\ parsed = NotParsed

\* self.choose_event()
DoChoose ==
    /\ alive
    /\ \E after \in choose_event(Self, clock) :
          /\ chosen_event' = after.chosen_event
          /\ candidates' = after.candidates
          /\ alive' = after.alive
    /\ UNCHANGED <<events, paused_for, paused_at, frame, pause>>
    /\ UNCHANGED timerVars
    /\ UNCHANGED calVars
    /\ UNCHANGED parseVars

NextSelect == DoChoose

SpecSelect == InitSelect /\ [][NextSelect]_vars

\* ------------------------------------------------------------------ calendar.rs: parse_ical_date

Digits == {"0", "1", "2", "3", "4", "5", "6", "7", "8", "9"}

\* char::to_digit(10)
to_digit(c) ==
    CASE c = "0" -> 0 [] c = "1" -> 1 [] c = "2" -> 2 [] c = "3" -> 3 [] c = "4" -> 4
      [] c = "5" -> 5 [] c = "6" -> 6 [] c = "7" -> 7 [] c = "8" -> 8 [] c = "9" -> 9

\* what a parser gives at a position: its output and the position after it, or a
\* failure, or (a map closure unwrapping None) a panic
ParseOk(value, next) == [status |-> "ok", value |-> value, next |-> next]
ParseFail == [status |-> "fail"]
ParsePanic == [status |-> "panic"]

\* digits.into_iter().fold(0, |acc, el| (acc * 10) + el)
RECURSIVE FoldDigits(_, _, _, _)
FoldDigits(text, pos, length, acc) ==
    IF length = 0 THEN acc
    ELSE FoldDigits(text, pos + 1, length - 1, (acc * 10) + to_digit(text[pos]))

\* number(length): one_of("1234567890").repeated().exactly(length)
number(text, pos, length) ==
    IF pos + length - 1 <= Len(text) /\ \A i \in pos..(pos + length - 1) : text[i] \in Digits
    THEN ParseOk(FoldDigits(text, pos, length, 0), pos + length)
    ELSE ParseFail

\* the days of a month of the proleptic Gregorian calendar
DaysInMonth(y, m) ==
    IF m \in {4, 6, 9, 11} THEN 30
    ELSE IF m # 2 THEN 31
    ELSE IF (y % 4 = 0 /\ y % 100 # 0) \/ y % 400 = 0 THEN 29 ELSE 28

\* NaiveDate::from_ymd_opt
from_ymd_opt(y, m, d) ==
    IF m >= 1 /\ m <= 12 /\ d >= 1 /\ d <= DaysInMonth(y, m)
    THEN Some([y |-> y, m |-> m, d |-> d])
    ELSE None

\* NaiveTime::from_hms_opt
from_hms_opt(h, m, sec) ==
    IF h < 24 /\ m < 60 /\ sec < 60
    THEN Some([h |-> h, m |-> m, s |-> sec])
    ELSE None

\* date(): number(4).then(number(2)).then(number(2)).map(.. from_ymd_opt(..).unwrap());
\* number(n) takes exactly n characters, so each part starts that far after the last
date(text, pos) ==
    LET y == number(text, pos, 4) IN
    IF y.status # "ok" THEN ParseFail ELSE
    LET m == number(text, pos + 4, 2) IN
    IF m.status # "ok" THEN ParseFail ELSE
    LET d == number(text, pos + 6, 2) IN
    IF d.status # "ok" THEN ParseFail ELSE
    LET made == from_ymd_opt(y.value, m.value, d.value) IN
    IF made.some THEN ParseOk(made.v, d.next) ELSE ParsePanic

\* time(): number(2).then(number(2)).then(number(2)).map(.. from_hms_opt(..).unwrap())
time(text, pos) ==
    LET h == number(text, pos, 2) IN
    IF h.status # "ok" THEN ParseFail ELSE
    LET m == number(text, pos + 2, 2) IN
    IF m.status # "ok" THEN ParseFail ELSE
    LET sec == number(text, pos + 4, 2) IN
    IF sec.status # "ok" THEN ParseFail ELSE
    LET made == from_hms_opt(h.value, m.value, sec.value) IN
    IF made.some THEN ParseOk(made.v, sec.next) ELSE ParsePanic

\* just(c)
just(text, pos, c) ==
    IF pos <= Len(text) /\ text[pos] = c THEN ParseOk(c, pos + 1) ELSE ParseFail

\* just('T').ignore_then(time()).then(just('Z').ignored().or_not()): the time and
\* whether a Z followed it; the T is one character and the time six
time_of_day(text, pos) ==
    LET t == just(text, pos, "T") IN
    IF t.status # "ok" THEN ParseFail ELSE
    LET tm == time(text, pos + 1) IN
    IF tm.status # "ok" THEN tm ELSE
    LET z == just(text, pos + 7, "Z") IN
    IF z.status = "ok"
    THEN ParseOk([time |-> tm.value, zulu |-> TRUE], z.next)
    ELSE ParseOk([time |-> tm.value, zulu |-> FALSE], tm.next)

Midnight == [h |-> 0, m |-> 0, s |-> 0]

\* what parse_ical_date returns: Ok with the instant (the naive date and time read as
\* UTC; floating for the form without Z, which is bound to a zero offset) and the
\* number of characters the parser consumed, Err, or a panic
Parsed(d, t, form, consumed) ==
    [kind |-> "Ok", date |-> d, time |-> t, form |-> form, consumed |-> consumed]
ParseError == [kind |-> "Err"]
ParsePanicked == [kind |-> "Panic"]

\* parse_ical_date: datetime().parse(input); the optional part, which starts after
\* the eight characters of the date, backtracks when it fails, and parse() does not
\* ask for the end of the input
parse_ical_date(text) ==
    LET d == date(text, 1) IN
    IF d.status = "fail" THEN ParseError
    ELSE IF d.status = "panic" THEN ParsePanicked
    ELSE LET t == time_of_day(text, 9) IN
         IF t.status = "panic" THEN ParsePanicked
         ELSE IF t.status = "fail"
              THEN Parsed(d.value, Midnight, "date", d.next - 1)
              ELSE Parsed(d.value, t.value.time,
                          IF t.value.zulu THEN "utc" ELSE "floating", t.next - 1)

\* ------------------------------------------------------------------ calendar.rs: the refresh

\* a raw to-do item is the sequence of its <<name, value>> properties, as
\* properties_todo() lists them; each name occurs at most once in an item, whatever
\* its letter case

\* str::to_lowercase, on the property names that occur
to_lowercase(k) ==
    CASE k \in {"STATUS", "Status"} -> "status"
      [] k \in {"COMPLETED", "Completed"} -> "completed"
      [] k \in {"PERCENT-COMPLETE", "Percent-Complete"} -> "percent-complete"
      [] k \in {"RRULE", "RRule"} -> "rrule"
      [] k \in {"UID", "Uid"} -> "uid"
      [] k = "DTSTAMP" -> "dtstamp"
      [] k = "DTSTART" -> "dtstart"
      [] k = "DUE" -> "due"
      [] k = "PRIORITY" -> "priority"
      [] OTHER -> k

\* .map(|(k, v)| (k.to_lowercase(), v.to_string())).collect::<HashMap<_, _>>(): the
\* map from the lowercased names to the values, a later pair replacing an earlier one
Properties(item) ==
    LET keys == {to_lowercase(item[i][1]) : i \in 1..Len(item)} IN
    [k \in keys |->
        LET last == CHOOSE i \in 1..Len(item) :
                        /\ to_lowercase(item[i][1]) = k
                        /\ \A j \in 1..Len(item) : to_lowercase(item[j][1]) = k => j <= i
        IN  item[last][2]]

\* the four filters with the one on rrule left out
Retained_norrule(properties) ==
    /\ ~("status" \in DOMAIN properties /\ properties["status"] = "COMPLETED")
    /\ "completed" \notin DOMAIN properties
    /\ ~("percent-complete" \in DOMAIN properties /\ properties["percent-complete"] = "100")

\* the four filters: the item is kept
Retained(properties) ==
    /\ ~("status" \in DOMAIN properties /\ properties["status"] = "COMPLETED")
    /\ "completed" \notin DOMAIN properties
    /\ ~("percent-complete" \in DOMAIN properties /\ properties["percent-complete"] = "100")
    /\ "rrule" \notin DOMAIN properties

\* str::parse::<i8>: an optional sign, then digits, within the range of i8
parse_i8(text) ==
    LET signed == Len(text) > 0 /\ text[1] \in {"+", "-"}
        first == IF signed THEN 2 ELSE 1
        length == Len(text) - first + 1
    IN  IF length < 1 \/ \E i \in first..Len(text) : text[i] \notin Digits
        THEN None
        ELSE LET v == FoldDigits(text, first, length, 0)
                 x == IF signed /\ text[1] = "-" THEN 0 - v ELSE v
             IN  IF x < I8Min \/ x > I8Max THEN None ELSE Some(x)

\* parse_ical_date on the text of a property the map has
ParseProperty(properties, name) ==
    CHOOSE p \in {parse_ical_date(text) : text \in {properties[name]}} : TRUE

\* properties.get(name).and_then(|text| parse_ical_date(text).ok()): the instant as
\* its date and time of day in UTC
DateField(properties, name) ==
    IF name \notin DOMAIN properties
    THEN None
    ELSE LET p == ParseProperty(properties, name) IN
         IF p.kind = "Ok" THEN Some([date |-> p.date, time |-> p.time]) ELSE None

\* the closure that builds the Event panics: parse_ical_date panicked on one of the
\* three date properties
EventPanics(properties) ==
    \E name \in {"dtstamp", "dtstart", "due"} :
        name \in DOMAIN properties /\ ParseProperty(properties, name).kind = "Panic"

\* the closure that builds the Event
MakeEvent(properties) ==
    Event(IF "uid" \in DOMAIN properties THEN properties["uid"] ELSE "???",
          DateField(properties, "dtstart"),
          DateField(properties, "due"),
          IF "priority" \in DOMAIN properties /\ parse_i8(properties["priority"]).some
          THEN parse_i8(properties["priority"]).v
          ELSE 11)

\* the closure handed to spawn_blocking, on the raw items the servers gave: the
\* Vec<Event> it returns, or its panic
FetchTodos(raw) ==
    LET maps == [i \in 1..Len(raw) |-> Properties(raw[i])]
        kept == SelectSeq(maps, Retained)
    IN  IF \E i \in 1..Len(kept) : EventPanics(kept[i])
        THEN [status |-> "panicked", result |-> <<>>]
        ELSE [status |-> "finished", result |-> [i \in 1..Len(kept) |-> MakeEvent(kept[i])]]

\* ------------------------------------------------------------------ calendar.rs: the sync manager

MaxGen == 3         \* background tasks spawned in one run

\* a task spawned by tokio::task::spawn_blocking: running, then finished with its
\* Vec<Event> or panicked; joined once its result was taken; detached once its
\* JoinHandle was dropped; raw is what the servers gave it
SpawnedTask == [status |-> "running", result |-> <<>>, detached |-> FALSE, raw |-> <<>>]

\* JoinHandle::is_finished
is_finished(task) == task.status \in {"finished", "panicked"}

\* dropping the old value of *self: a JoinHandle it holds is dropped, which detaches
\* the task, leaves it running and drops the output it has or will have; what was
\* fetched for the lists before is of no use any more
DropCalendar(self, ts) ==
    [g \in 1..Len(ts) |->
        IF self.state = "Working" /\ self.handle.some /\ self.handle.v = g
        THEN [ts[g] EXCEPT !.detached = TRUE, !.result = <<>>, !.raw = <<>>]
        ELSE [ts[g] EXCEPT !.raw = <<>>]]

\* Calendar::reset that leaves a refresh in flight in place and lets the new task go
Calendar_reset_keep(self, ts) ==
    IF self.state = "Working" /\ self.handle.some
    THEN [events |-> self, tasks |-> Append(ts, [SpawnedTask EXCEPT !.detached = TRUE]),
          ready_gen |-> 0]
    ELSE [events |-> InFlight(Some(Len(ts) + 1)), tasks |-> Append(ts, SpawnedTask),
          ready_gen |-> 0]

\* Calendar::reset: the new value of *self and the tasks after the spawn
Calendar_reset(self, ts) ==
    [events |-> InFlight(Some(Len(ts) + 1)),
     tasks |-> Append(DropCalendar(self, ts), SpawnedTask),
     ready_gen |-> 0]

\* Calendar::tick that takes the result of whichever task has finished first
Calendar_tick_any(self, ts, gen) ==
    LET done == {g \in 1..Len(ts) : ts[g].status = "finished"} IN
    IF self.state = "Working" /\ done # {}
    THEN LET g == CHOOSE x \in done : \A y \in done : x <= y IN
         [events |-> Ready(ts[g].result),
          tasks |-> [ts EXCEPT ![g].status = "joined", ![g].result = <<>>],
          ready_gen |-> g, alive |-> TRUE]
    ELSE [events |-> self, tasks |-> ts, ready_gen |-> gen, alive |-> TRUE]

\* Calendar::tick that takes the handle without asking whether the task has finished
Calendar_tick_eager(self, ts, gen) ==
    IF self.state = "Working" /\ self.handle.some
    THEN LET g == self.handle.v IN
         IF ts[g].status = "panicked"
         THEN [events |-> InFlight(None), tasks |-> ts, ready_gen |-> gen, alive |-> FALSE]
         ELSE [events |-> Ready(ts[g].result),
               tasks |-> [ts EXCEPT ![g].status = "joined", ![g].result = <<>>],
               ready_gen |-> g, alive |-> TRUE]
    ELSE [events |-> self, tasks |-> ts, ready_gen |-> gen, alive |-> TRUE]

\* Calendar::tick: the new value of *self, the tasks, and whether expect() let the
\* process live
Calendar_tick(self, ts, gen) ==
    IF self.state = "Working" /\ self.handle.some /\ is_finished(ts[self.handle.v])
    THEN LET g == self.handle.v IN
         IF ts[g].status = "panicked"
         THEN [events |-> InFlight(None), tasks |-> ts, ready_gen |-> gen, alive |-> FALSE]
         ELSE [events |-> Ready(ts[g].result),
               tasks |-> [ts EXCEPT ![g].status = "joined", ![g].result = <<>>],
               ready_gen |-> g, alive |-> TRUE]
    ELSE [events |-> self, tasks |-> ts, ready_gen |-> gen, alive |-> TRUE]

\* ------------------------------------------------------------------ the sync manager driven alone

\* tasks for the fetched lists
TaskA == Event("a", None, None, 1)
TaskB == Event("b", None, Some(1), 12)
TaskD == Event("d", None, None, 13)

\* what a refresh can produce
FetchedLists == {<<>>, <<TaskA>>, <<TaskB>>, <<TaskA, TaskB>>, <<TaskD>>}

InitCal ==
    /\ settings = [work_time |-> 1, short_rest_time |-> 1, long_rest_time |-> 1,
                   long_rest_interval |-> 1]
    /\ timer = NotRunning
    /\ clock = 0
    /\ call = NoCall
    /\ states = <<>>
    /\ ticked = FALSE
    /\ regular = FALSE
    /\ remaining = NoRemaining
    /\ events = Ready(<<>>)
    /\ chosen_event = None
    /\ paused_for = 0
    /\ paused_at = None
    /\ alive = TRUE
    /\ candidates = <<>>
    /\ tasks = <<>>
    /\ ready_gen = 0
    /\ frame = NoFrame
    /\ pause = NoPause
    /\ input = <<>>
    /\ parsed = NotParsed

\* events.reset(&settings)
DoReset ==
    /\ alive
    /\ Len(tasks) < MaxGen
    /\ LET r == Calendar_reset(events, tasks) IN
       /\ events' = r.events
       /\ tasks' = r.tasks
       /\ ready_gen' = r.ready_gen
    /\ UNCHANGED <<chosen_event, paused_for, paused_at, alive, candidates, frame, pause>>
    /\ UNCHANGED timerVars
    /\ UNCHANGED parseVars

\* events.tick(&settings)
DoPoll ==
    /\ alive
    /\ LET r == Calendar_tick(events, tasks, ready_gen) IN
       /\ events' = r.events
       /\ tasks' = r.tasks
       /\ ready_gen' = r.ready_gen
       /\ alive' = r.alive
    /\ UNCHANGED <<chosen_event, paused_for, paused_at, candidates, frame, pause>>
    /\ UNCHANGED timerVars
    /\ UNCHANGED parseVars

\* the closure of a spawned task returns its list
BackgroundFinish ==
    \E g \in 1..Len(tasks), list \in FetchedLists :
        /\ alive
        /\ tasks[g].status = "running"
        /\ tasks' = [tasks EXCEPT ![g].status = "finished",
                                   ![g].result = IF tasks[g].detached THEN <<>> ELSE list]
        /\ UNCHANGED <<ready_gen>>
        /\ UNCHANGED appVars
        /\ UNCHANGED timerVars
        /\ UNCHANGED parseVars

\* the closure of a spawned task panics
BackgroundPanic ==
    \E g \in 1..Len(tasks) :
        /\ alive
        /\ tasks[g].status = "running"
        /\ tasks' = [tasks EXCEPT ![g].status = "panicked"]
        /\ UNCHANGED <<ready_gen>>
        /\ UNCHANGED appVars
        /\ UNCHANGED timerVars
        /\ UNCHANGED parseVars

NextCal == DoReset \/ DoPoll \/ BackgroundFinish \/ BackgroundPanic

SpecCal == InitCal /\ [][NextCal]_vars

\* ------------------------------------------------------------------ the refresh driven alone

\* texts of date properties: a date, a date with a time, months, days and hours that
\* do not exist, a digit too few
DateOnly == <<"2", "0", "2", "4", "0", "1", "1", "5">>
DateTimeZulu ==
    <<"2", "0", "2", "4", "0", "1", "1", "5", "T", "1", "3", "3", "0", "0", "0", "Z">>
Month13 == <<"2", "0", "2", "4", "1", "3", "0", "1">>
Day00 == <<"2", "0", "2", "4", "0", "1", "0", "0">>
Hour25 == <<"2", "0", "2", "4", "0", "1", "1", "5", "T", "2", "5", "0", "0", "0", "0">>
DigitShort == <<"2", "0", "2", "4", "0", "1", "1">>

\* raw to-do items, each with a uid of its own: open ones, ones that each filter
\* removes under several spellings of the property name, and ones whose dates do
\* not exist
RawItems ==
    {<< <<"UID", "a">>, <<"PRIORITY", <<"1">>>> >>,
     << <<"UID", "b">>, <<"Status", "NEEDS-ACTION">>, <<"PERCENT-COMPLETE", "50">>,
        <<"DTSTART", DateTimeZulu>>, <<"DUE", DateOnly>> >>,
     << <<"UID", "c">>, <<"STATUS", "COMPLETED">> >>,
     << <<"uid", "d">>, <<"status", "COMPLETED">>, <<"priority", <<"1">>>> >>,
     << <<"Uid", "e">>, <<"Completed", DateTimeZulu>> >>,
     << <<"UID", "f">>, <<"PERCENT-COMPLETE", "100">>, <<"DUE", DateOnly>> >>,
     << <<"UID", "g">>, <<"RRule", "FREQ=DAILY">> >>,
     << <<"UID", "h">>, <<"DTSTART", Month13>> >>,
     << <<"UID", "i">>, <<"DUE", Hour25>> >>,
     << <<"UID", "j">>, <<"STATUS", "COMPLETED">>, <<"DTSTART", Month13>> >>,
     << <<"UID", "k">>, <<"DUE", DigitShort>>, <<"PRIORITY", <<"2", "0", "0">>>> >>,
     << <<"UID", "l">>, <<"DTSTAMP", Day00>>, <<"rrule", "FREQ=DAILY">> >>,
     << <<"UID", "m">>, <<"DTSTAMP", Day00>> >>}

\* the second items of the lists of two: an open one, a completed one, one with a
\* month 13
SecondItems ==
    {<< <<"UID", "a">>, <<"PRIORITY", <<"1">>>> >>,
     << <<"UID", "c">>, <<"STATUS", "COMPLETED">> >>,
     << <<"UID", "h">>, <<"DTSTART", Month13>> >>}

\* what the servers can give a refresh: up to two items
RawLists ==
    {<<>>} \cup {<<x>> : x \in RawItems} \cup {<<x, y>> : x \in RawItems, y \in SecondItems}

\* what the closure gives for each of them
FetchResults == [raw \in RawLists |-> FetchTodos(raw)]

\* the closure of a spawned task has fetched raw and returns its list
FetchFinish ==
    \E g \in 1..Len(tasks), raw \in RawLists :
        LET r == FetchResults[raw] IN
        /\ alive
        /\ tasks[g].status = "running"
        /\ r.status = "finished"
        /\ tasks' = [tasks EXCEPT ![g].status = "finished",
                                   ![g].result = IF tasks[g].detached THEN <<>> ELSE r.result,
                                   ![g].raw = IF tasks[g].detached THEN <<>> ELSE raw]
        /\ UNCHANGED <<ready_gen>>
        /\ UNCHANGED appVars
        /\ UNCHANGED timerVars
        /\ UNCHANGED parseVars

\* the closure of a spawned task has fetched raw and panics on it
FetchPanic ==
    \E g \in 1..Len(tasks), raw \in RawLists :
        LET r == FetchResults[raw] IN
        /\ alive
        /\ tasks[g].status = "running"
        /\ r.status = "panicked"
        /\ tasks' = [tasks EXCEPT ![g].status = "panicked",
                                   ![g].raw = IF tasks[g].detached THEN <<>> ELSE raw]
        /\ UNCHANGED <<ready_gen>>
        /\ UNCHANGED appVars
        /\ UNCHANGED timerVars
        /\ UNCHANGED parseVars

NextFetch == DoReset \/ DoPoll \/ FetchFinish \/ FetchPanic

SpecFetch == InitCal /\ [][NextFetch]_vars

\* ------------------------------------------------------------------ lib.rs: Application

MaxAppTime == 4     \* the clock of the application stops advancing at MaxAppTime
MaxReload == 1      \* clicks on Reload in one run

\* Timer::ping: one notification whose body is the tag of the phase
Timer_ping(self) == [self EXCEPT !.notified = Append(self.notified, self.timer.tag)]

\* Application::tick with the arm (false, _, true) => self.chosen_event = None in place
Application_tick_clear(self, s, now, local_now) ==
    LET t == Timer_tick(self.timer, s, now, FALSE)
        ticked_self == [self EXCEPT !.timer = t.timer]
        pinged == IF t.ret THEN Timer_ping(ticked_self) ELSE ticked_self
        c == Calendar_tick(pinged.events, pinged.tasks, pinged.ready_gen)
        polled == [pinged EXCEPT !.events = c.events, !.tasks = c.tasks,
                                 !.ready_gen = c.ready_gen, !.alive = c.alive]
    IN  IF ~polled.alive
        THEN {polled}
        ELSE IF polled.events.state = "Ready" /\ ~polled.chosen_event.some
                /\ polled.events.list # <<>>
             THEN choose_event(polled, local_now)
             ELSE IF ~Timer_working(polled.timer) /\ polled.chosen_event.some
                  THEN {[polled EXCEPT !.chosen_event = None]}
                  ELSE {polled}

\* Application::tick: every outcome, choose_event's rng included
Application_tick(self, s, now, local_now) ==
    LET t == Timer_tick(self.timer, s, now, FALSE)
        ticked_self == [self EXCEPT !.timer = t.timer]
        pinged == IF t.ret THEN Timer_ping(ticked_self) ELSE ticked_self
        c == Calendar_tick(pinged.events, pinged.tasks, pinged.ready_gen)
        polled == [pinged EXCEPT !.events = c.events, !.tasks = c.tasks,
                                 !.ready_gen = c.ready_gen, !.alive = c.alive]
    IN  IF ~polled.alive
        THEN {polled}
        ELSE IF polled.events.state = "Ready" /\ ~polled.chosen_event.some
                /\ polled.events.list # <<>>
             THEN choose_event(polled, local_now)
             ELSE {polled}

\* the buttons the update draws, given the state after Application::tick
Buttons(self) ==
    {"none", "Skip"}
    \cup (IF self.events.state = "Working" THEN {} ELSE {"Reload"})
    \cup (IF Timer_running(self.timer) THEN {"Stop"} ELSE {"Start"})
    \cup (IF self.paused_at.some THEN {"Resume"} ELSE {"Pause"})
    \cup (IF self.chosen_event.some THEN {"New task"} ELSE {})

\* the handler of the clicked button: every outcome
Clicked(self, s, click, now, instant_now) ==
    CASE click = "Reload" ->
           LET r == Calendar_reset(self.events, self.tasks) IN
           {[self EXCEPT !.events = r.events, !.tasks = r.tasks, !.ready_gen = r.ready_gen]}
      [] click = "Stop" -> {[self EXCEPT !.timer = Timer_stop]}
      [] click = "Start" -> {[self EXCEPT !.timer = Timer_start(now)]}
      [] click = "Resume" ->
           {[self EXCEPT !.paused_for = self.paused_for + (instant_now - self.paused_at.v),
                         !.paused_at = None]}
      [] click = "Pause" -> {[self EXCEPT !.paused_at = Some(instant_now)]}
      [] click = "Skip" ->
           {Timer_ping([self EXCEPT !.timer = Timer_tick(self.timer, s, now, TRUE).timer])}
      [] click = "New task" -> choose_event(self, instant_now)
      [] OTHER -> {self}

\* the pause-adjusted now with the pause that is going on left out
AdjustedNow_nopause(self, instant_now) == instant_now - self.paused_for

\* the pause-adjusted now of Application::update
AdjustedNow(self, instant_now) ==
    instant_now - self.paused_for
        - (IF self.paused_at.some THEN instant_now - self.paused_at.v ELSE 0)

\* the tags of the phases entered on the way from one timer value to the next
Entered(before, after) == IF after.tag # before.tag THEN <<after.tag>> ELSE <<>>

\* what follows Application::tick in the frame: nothing once the process has died,
\* else the handler of the clicked button
AfterTick(mid, s, click, now, instant_now) ==
    IF ~mid.alive
    THEN (IF click = "none" THEN {mid} ELSE {})
    ELSE IF click \in Buttons(mid)
         THEN Clicked(mid, s, click, now, instant_now)
         ELSE {}

\* <Application as eframe::App>::update, one frame with at most one button clicked:
\* the state after Application::tick and the state after the frame, by outcome, with
\* the now of the frame and the remaining time the central panel draws
Application_update(self, s, click, instant_now) ==
    LET now == AdjustedNow(self, instant_now)
        mids == IF self.paused_at.some
                THEN {self}
                ELSE Application_tick(self, s, now, instant_now)
    IN  UNION {{[mid |-> m, final |-> f, now |-> now,
                 remaining |-> IF f.alive THEN Timer_remaining(f.timer, now, s) ELSE 0] :
                    f \in AfterTick(m, s, click, now, instant_now)} :
                  m \in mids}

\* ------------------------------------------------------------------ the application

\* the settings of the application's runs
AppSettings ==
    [work_time : 1..MaxDur, short_rest_time : {1}, long_rest_time : {1},
     long_rest_interval : 1..2]

\* Application::init, then the reset of main
InitApp ==
    /\ settings \in AppSettings
    /\ timer = NotRunning
    /\ clock = 0
    /\ call = NoCall
    /\ states = <<>>
    /\ ticked = FALSE
    /\ regular = FALSE
    /\ remaining = NoRemaining
    /\ events = Calendar_reset(Ready(<<>>), <<>>).events
    /\ tasks = Calendar_reset(Ready(<<>>), <<>>).tasks
    /\ chosen_event = None
    /\ paused_for = 0
    /\ paused_at = None
    /\ alive = TRUE
    /\ candidates = <<>>
    /\ ready_gen = 0
    /\ frame = NoFrame
    /\ pause = NoPause
    /\ input = <<>>
    /\ parsed = NotParsed

\* one frame: update(ctx, frame)
DoUpdate ==
    \E click \in {"none", "Reload", "Stop", "Start", "Resume", "Pause", "Skip", "New task"} :
        /\ alive
        /\ click = "Reload" => Len(tasks) < MaxReload + 1
        /\ \E o \in Application_update(Self, settings, click, clock) :
              /\ timer' = o.final.timer
              /\ events' = o.final.events
              /\ chosen_event' = o.final.chosen_event
              /\ paused_for' = o.final.paused_for
              /\ paused_at' = o.final.paused_at
              /\ alive' = o.final.alive
              /\ candidates' = o.final.candidates
              /\ tasks' = o.final.tasks
              /\ ready_gen' = o.final.ready_gen
              /\ frame' = [ran |-> TRUE, ticked |-> ~paused_at.some, click |-> click,
                           mid_tag |-> o.mid.timer.tag,
                           mid_ready |-> o.mid.events.state = "Ready",
                           mid_len |-> Len(o.mid.events.list),
                           shown_before |-> chosen_event.some,
                           shown_mid |-> o.mid.chosen_event.some,
                           notified |-> o.final.notified,
                           entered |-> Entered(timer, o.mid.timer)
                                          \o Entered(o.mid.timer, o.final.timer),
                           now |-> o.now, remaining |-> o.remaining]
              /\ pause' = IF click = "Pause" /\ o.final.paused_at.some
                           THEN [idle |-> pause.idle, now |-> o.now,
                                 remaining |-> o.remaining, kept |-> TRUE]
                           ELSE IF ~paused_at.some
                                THEN [NoPause EXCEPT !.idle = pause.idle]
                                ELSE IF o.final.timer # timer
                                     THEN [pause EXCEPT !.kept = FALSE, !.remaining = 0]
                                     ELSE pause
        /\ UNCHANGED <<settings, clock, call, states, ticked, regular, remaining>>
        /\ UNCHANGED parseVars

\* one time unit passes between two frames
AppAdvance ==
    /\ alive
    /\ clock < MaxAppTime
    /\ clock' = clock + 1
    /\ frame' = NoFrame
    /\ UNCHANGED <<settings, timer, call, states, ticked, regular, remaining>>
    /\ candidates' = <<>>
    /\ pause' = IF paused_at.some
                THEN [pause EXCEPT !.idle = pause.idle + 1]
                ELSE [NoPause EXCEPT !.idle = pause.idle]
    /\ UNCHANGED <<events, chosen_event, paused_for, paused_at, alive>>
    /\ UNCHANGED calVars
    /\ UNCHANGED parseVars

\* the closure of a spawned task returns its list, between two frames
AppBackgroundFinish ==
    \E g \in 1..Len(tasks), list \in FetchedLists :
        /\ alive
        /\ tasks[g].status = "running"
        /\ tasks' = [tasks EXCEPT ![g].status = "finished",
                                   ![g].result = IF tasks[g].detached THEN <<>> ELSE list]
        /\ frame' = NoFrame
        /\ candidates' = <<>>
        /\ UNCHANGED <<events, chosen_event, paused_for, paused_at, alive, pause>>
        /\ UNCHANGED ready_gen
        /\ UNCHANGED timerVars
        /\ UNCHANGED parseVars

\* the closure of a spawned task panics, between two frames
AppBackgroundPanic ==
    \E g \in 1..Len(tasks) :
        /\ alive
        /\ tasks[g].status = "running"
        /\ tasks' = [tasks EXCEPT ![g].status = "panicked"]
        /\ frame' = NoFrame
        /\ candidates' = <<>>
        /\ UNCHANGED <<events, chosen_event, paused_for, paused_at, alive, pause>>
        /\ UNCHANGED ready_gen
        /\ UNCHANGED timerVars
        /\ UNCHANGED parseVars

NextApp == DoUpdate \/ AppAdvance \/ AppBackgroundFinish \/ AppBackgroundPanic

SpecApp == InitApp /\ [][NextApp]_vars

\* the same with frames that keep arriving and background closures that come to
\* their end
SpecAppLive ==
    InitApp /\ [][NextApp]_vars /\ WF_vars(DoUpdate) /\ WF_vars(AppBackgroundFinish)

\* ------------------------------------------------------------------ the parser driven alone

\* how a text may begin: dates that exist and that do not, too few and too many digits
DateTexts ==
    {<<"2", "0", "2", "4", "0", "1", "1", "5">>,
     <<"2", "0", "2", "4", "0", "2", "2", "9">>,
     <<"2", "0", "2", "3", "0", "2", "2", "9">>,
     <<"2", "0", "2", "4", "1", "3", "0", "1">>,
     <<"2", "0", "2", "4", "0", "1", "0", "0">>,
     <<"2", "0", "2", "4", "0", "1", "1">>,
     <<"2", "0", "2", "4", "0", "1", "1", "5", "0">>,
     <<"2", "0", "2", "4">>,
     <<>>,
     <<"2", "0", "2", "4", "X", "1", "1", "5">>}

\* how it may go on: a time, a time and a Z, parts of them, other characters
TailTexts ==
    {<<>>,
     <<"T", "1", "3", "3", "0", "0", "0">>,
     <<"T", "1", "3", "3", "0", "0", "0", "Z">>,
     <<"T", "1", "3", "3", "0">>,
     <<"T">>,
     <<"Z">>,
     <<"X">>,
     <<"T", "1", "3", "3", "0", "0", "0", "X">>,
     <<"T", "1", "3", "3", "0", "0", "0", "Z", "Z">>,
     <<"T", "2", "5", "0", "0", "0", "0">>,
     <<"T", "2", "3", "5", "9", "6", "0">>,
     <<"t", "1", "3", "3", "0", "0", "0">>}

ParseInputs == {d \o t : d \in DateTexts, t \in TailTexts}

InitParse ==
    /\ settings = [work_time |-> 1, short_rest_time |-> 1, long_rest_time |-> 1,
                   long_rest_interval |-> 1]
    /\ timer = NotRunning
    /\ clock = 0
    /\ call = NoCall
    /\ states = <<>>
    /\ ticked = FALSE
    /\ regular = FALSE
    /\ remaining = NoRemaining
    /\ events = Ready(<<>>)
    /\ chosen_event = None
    /\ paused_for = 0
    /\ paused_at = None
    /\ alive = TRUE
    /\ candidates = <<>>
    /\ tasks = <<>>
    /\ ready_gen = 0
    /\ frame = NoFrame
    /\ pause = NoPause
    /\ input \in ParseInputs
    /\ parsed = NotParsed

\* parse_ical_date(input)
DoParse ==
    /\ parsed = NotParsed
    /\ parsed' = parse_ical_date(input)
    /\ UNCHANGED input
    /\ UNCHANGED timerVars
    /\ UNCHANGED appVars
    /\ UNCHANGED calVars

NextParse == DoParse

SpecParse == InitParse /\ [][NextParse]_vars

\* ------------------------------------------------------------------ claims on the timer

\* the cycle of k Working phases separated by ShortBreaks, then one LongBreak
PhaseCycle(k) ==
    [i \in 1..Max(2 * k, 1) |->
        IF i >= 2 * k THEN "LongBreak"
        ELSE IF i % 2 = 1 THEN "Working" ELSE "ShortBreak"]

\* seq repeats the cycle cyc from its first element
RepeatsCycle(seq, cyc) ==
    \A i \in 1..Len(seq) : seq[i] = cyc[((i - 1) % Len(cyc)) + 1]

\* C1 as stated: from Working(0, t0) the phases entered, by forced and by time-driven
\* ticks alike, repeat the cycle of long_rest_interval Working phases separated by
\* ShortBreaks and then one LongBreak.
C1_AsStated == RepeatsCycle(states, PhaseCycle(settings.long_rest_interval))

\* C1 amended: the phases entered repeat the cycle of max(long_rest_interval, 1)
\* Working phases separated by ShortBreaks and then one LongBreak; an interval of
\* 0 gives the cycle of an interval of 1.
C1_PhaseCycle == RepeatsCycle(states, PhaseCycle(Max(settings.long_rest_interval, 1)))

\* the regression fixture of the spec: interval 3, eight phases, the last by a time-driven tick
C1_Witness ==
    /\ settings.long_rest_interval = 3
    /\ states = <<"Working", "ShortBreak", "Working", "ShortBreak",
                  "Working", "LongBreak", "Working", "ShortBreak">>
    /\ call.made
    /\ call.ret
    /\ ~call.skip

\* the configured duration of a phase
ConfiguredDuration(tag, s) ==
    CASE tag = "Working" -> s.work_time
      [] tag = "ShortBreak" -> s.short_rest_time
      [] tag = "LongBreak" -> s.long_rest_time

\* now - started_at has reached the duration configured for the phase of t
ThresholdElapsed(t, s, now) ==
    /\ t.tag \in {"Working", "ShortBreak", "LongBreak"}
    /\ now - t.started >= ConfiguredDuration(t.tag, s)

\* a tick with force = false changes the phase and returns true exactly when the
\* threshold of the phase has elapsed, and otherwise changes nothing and returns false
UnforcedTickIff ==
    (call.made /\ ~call.skip) =>
        /\ call.ret = ThresholdElapsed(call.before, settings, call.now)
        /\ call.ret => (timer.tag # call.before.tag /\ timer.started = call.now)
        /\ ~call.ret => timer = call.before

\* C2 as stated: a tick with force = false changes the phase and returns true iff the
\* phase's configured duration has elapsed, else leaves the phase and started_at
\* unchanged and returns false; ticked once per time unit, a phase is left when it has
\* been held for exactly its configured duration.
C2_AsStated ==
    /\ UnforcedTickIff
    /\ (call.made /\ call.ret /\ ~call.skip /\ call.once) =>
          call.now - call.before.started = ConfiguredDuration(call.before.tag, settings)

\* C2 amended: the same, except that ticked once per time unit a phase is held for
\* max(duration, 1) time units: a phase configured with duration 0 is left by the
\* next tick, one time unit after it was entered.
C2_UnforcedTick ==
    /\ UnforcedTickIff
    /\ (call.made /\ call.ret /\ ~call.skip /\ call.once) =>
          call.now - call.before.started
              = Max(ConfiguredDuration(call.before.tag, settings), 1)

\* a Working phase of duration 2 left by the one tick of its second time unit
C2_Witness ==
    /\ call.made
    /\ call.ret
    /\ ~call.skip
    /\ call.once
    /\ call.before.tag = "Working"
    /\ settings.work_time = 2
    /\ call.now = call.before.started + 2
    /\ timer.tag = "ShortBreak"

\* C3 as stated: for every long_rest_interval, 0 and 1 included, the counter n of
\* Working(n, _) and ShortBreak(n, _) satisfies 0 <= n < long_rest_interval.
C3_AsStated ==
    timer.tag \in {"Working", "ShortBreak"} =>
        (0 <= timer.n /\ timer.n < settings.long_rest_interval)

\* C3 amended: the counter n of Working(n, _) and ShortBreak(n, _) satisfies
\* 0 <= n < max(long_rest_interval, 1): with an interval of 0 the counter is 0.
C3_CounterRange ==
    timer.tag \in {"Working", "ShortBreak"} =>
        (0 <= timer.n /\ timer.n < Max(settings.long_rest_interval, 1))

\* the last short break before a long break, with interval 3
C3_Witness ==
    /\ settings.long_rest_interval = 3
    /\ timer.tag = "ShortBreak"
    /\ timer.n = 2

\* started_at + phase_duration: the deadline of the phase
Deadline(t, s) == t.started + ConfiguredDuration(t.tag, s)

\* C14 as stated: Timer::remaining returns the signed difference
\* started_at + phase_duration - now for the current phase, negative when now is past
\* the deadline, and zero when Idle.
C14_AsStated ==
    remaining.made =>
        remaining.value = IF timer.tag = "NotRunning" THEN 0
                          ELSE Deadline(timer, settings) - remaining.now

\* C14 amended: Timer::remaining returns max(started_at + phase_duration - now, 0) for
\* the current phase, so zero and never a negative value when now is at or past the
\* deadline, and zero when Idle.
C14_RemainingSaturates ==
    remaining.made =>
        /\ remaining.value >= 0
        /\ remaining.value = IF timer.tag = "NotRunning" THEN 0
                             ELSE Max(Deadline(timer, settings) - remaining.now, 0)

\* remaining asked of a Working phase two time units past its deadline
C14_Witness ==
    /\ remaining.made
    /\ timer.tag = "Working"
    /\ remaining.now = Deadline(timer, settings) + 2
    /\ remaining.value = 0

\* ------------------------------------------------------------------ claims on the selector

\* choose_event has run on the Ready list
Chosen == events.state = "Ready" /\ Len(candidates) = Len(events.list)

\* the task's due instant has passed
Overdue(event, now) == event.due.some /\ event.due.v < now

\* C8 as stated: an eligible task that is not overdue is repeated max(12 - priority, 0)
\* times in the selection multiset, for every priority of the signed 8-bit field,
\* those of 12 and above included.
C8_AsStated ==
    Chosen =>
        \A i \in 1..Len(events.list) :
            LET e == events.list[i] now == clock - paused_for IN
            (Eligible(e, now) /\ ~Overdue(e, now)) =>
                /\ ~candidates[i].wrapped
                /\ candidates[i].value = Max(12 - e.priority, 0)

\* C9: an eligible overdue task is repeated max(2 * max(12 - priority, 0), 1) times,
\* so at least once, for every priority.
C9_OverdueWeight ==
    Chosen =>
        \A i \in 1..Len(events.list) :
            LET e == events.list[i] now == clock - paused_for IN
            (Eligible(e, now) /\ Overdue(e, now)) =>
                /\ ~candidates[i].wrapped
                /\ candidates[i].value = Max(2 * Max(12 - e.priority, 0), 1)
                /\ candidates[i].value >= 1

\* an overdue task of priority 12, base weight 0, repeated once and chosen
C9_Witness ==
    /\ Chosen
    /\ Len(events.list) = 1
    /\ events.list[1].priority = 12
    /\ Overdue(events.list[1], clock - paused_for)
    /\ candidates[1] = [wrapped |-> FALSE, value |-> 1]
    /\ chosen_event = Some(events.list[1])

\* the weight of a task: max(12 - priority, 0), and max(2 * that, 1) once overdue
Weight(event, now) ==
    IF Overdue(event, now)
    THEN Max(2 * Max(12 - event.priority, 0), 1)
    ELSE Max(12 - event.priority, 0)

\* the entries of the list that are eligible and have weight at least 1
Selectable(list, now) ==
    {i \in 1..Len(list) : Eligible(list[i], now) /\ Weight(list[i], now) >= 1}

\* C17 as stated: the selector can return a task if and only if the task is in the
\* Ready list, eligible and of weight at least 1, and it yields no selection exactly
\* when the list has no such task, as for the empty list.
C17_AsStated ==
    Chosen =>
        LET now == clock - paused_for
            able == Selectable(events.list, now) IN
        /\ alive
        /\ chosen_event.some <=> able # {}
        /\ chosen_event.some => \E i \in able : chosen_event.v = events.list[i]
        /\ \A i \in able :
              \E o \in choose_event(Self, clock) :
                  o.alive /\ o.chosen_event = Some(events.list[i])

\* ------------------------------------------------------------------ claims on the sync manager

\* background tasks still running
InFlightTasks == {g \in 1..Len(tasks) : tasks[g].status = "running"}

\* C5: when a reset follows another whose refresh is still in flight, the result of the
\* superseded generation is never taken and never becomes Ready: a Ready state holds
\* the result of the most recent generation only.
C5_LatestGenerationOnly ==
    /\ \A g \in 1..Len(tasks) : tasks[g].detached => tasks[g].status # "joined"
    /\ (events.state = "Ready" /\ Len(tasks) > 0) =>
          /\ ready_gen = Len(tasks)
          /\ tasks[ready_gen].status = "joined"

\* both generations complete, the first with another list, and the second is Ready
C5_Witness ==
    /\ Len(tasks) = 2
    /\ tasks[1].detached
    /\ tasks[1].status = "finished"
    /\ tasks[2].status = "joined"
    /\ events = Ready(<<TaskB>>)
    /\ ready_gen = 2

\* C6 as stated: for every sequence of reset and poll, at most one background fetch is
\* in flight at any time.
C6_AsStated == Cardinality(InFlightTasks) <= 1

\* C6 amended: at most one background fetch whose result can still be taken is in
\* flight; a reset made while a refresh is in flight abandons that refresh without
\* stopping it, so it runs on beside the new one, and only when every reset is made in
\* the Ready state is at most one fetch running at any time.
C6_OneAwaitedFetch ==
    /\ Cardinality({g \in InFlightTasks : ~tasks[g].detached}) <= 1
    /\ (\A g \in 1..Len(tasks) : ~tasks[g].detached) => Cardinality(InFlightTasks) <= 1
    /\ \A g \in InFlightTasks :
          ~tasks[g].detached => events = InFlight(Some(g))

\* a reset made after a refresh was taken: one fetch in flight, none abandoned
C6_Witness ==
    /\ Len(tasks) = 2
    /\ tasks[1].status = "joined"
    /\ ~tasks[1].detached
    /\ tasks[2].status = "running"
    /\ events = InFlight(Some(2))

\* the refresh the InFlight state holds is over: its closure returned or panicked
PollCompleted ==
    events.state = "Working" /\ events.handle.some /\ is_finished(tasks[events.handle.v])

\* C15: a poll changes the sync state only when the state is InFlight and the work of
\* that generation is over, and the state it returns with is then Ready holding
\* exactly the list that work returned; when the work is not over, or the state is
\* Ready already, the poll leaves the sync state and the work as they are.
C15_PollFrame ==
    [][DoPoll =>
          /\ (events' # events) => PollCompleted
          /\ (PollCompleted /\ alive') =>
                /\ events' = Ready(tasks[events.handle.v].result)
                /\ ready_gen' = events.handle.v
          /\ ~PollCompleted => (events' = events /\ tasks' = tasks /\ alive')]_vars

\* a poll has taken the two tasks the first refresh returned
C15_Witness ==
    /\ events = Ready(<<TaskA, TaskB>>)
    /\ ready_gen = 1
    /\ Len(tasks) = 1
    /\ tasks[1].status = "joined"

\* ------------------------------------------------------------------ claims on the application

\* C4 as stated: every phase transition, by an orchestrator tick, a Skip, a Start or a
\* Stop, shows exactly one notification carrying the tag of the new phase, and no
\* notification is shown when the phase did not change.
C4_AsStated == frame.ran => frame.notified = frame.entered

\* C7 as stated: an orchestrator tick selects and stores a shown task only when the
\* phase is Working, the sync state is Ready, the Ready list is non-empty and no task
\* is shown; none is selected while the phase is Idle, ShortBreak or LongBreak.
C7_AsStated ==
    (frame.ran /\ frame.ticked /\ ~frame.shown_before /\ frame.shown_mid) =>
        /\ frame.mid_tag = "Working"
        /\ frame.mid_ready
        /\ frame.mid_len > 0

\* C13 as stated: while a refresh is in flight the list of the last Ready state stays
\* in use and available to task selection: a selection asked for then (a task is
\* shown, so that list held at least this task) weighs the entries of that list.
C13_AsStated ==
    (frame.ran /\ frame.click = "New task" /\ ~frame.mid_ready) => Len(candidates) > 0

\* the latest refresh has returned its list and the list was not taken yet
LatestCompleted(g) ==
    /\ alive
    /\ Len(tasks) = g
    /\ tasks[g].status = "finished"
    /\ events = InFlight(Some(g))

\* C16 as stated: when the background work of the most recent reset has completed and
\* frames keep arriving, then, unless a further reset is made, the sync state is
\* eventually Ready with the result of that generation.
C16_AsStated ==
    \A g \in 1..(MaxReload + 1) :
        LatestCompleted(g) ~> ((events.state = "Ready" /\ ready_gen = g) \/ Len(tasks) > g)

\* the shown task is what a choose over the current task list has just given: every
\* entry was weighed, and the task is an entry that was repeated at least once, or
\* there is none and no entry was repeated
FreshChoice ==
    /\ events.state = "Ready"
    /\ Len(candidates) = Len(events.list)
    /\ chosen_event.some =>
          \E i \in 1..Len(events.list) :
              candidates[i].value > 0 /\ chosen_event.v = events.list[i]
    /\ ~chosen_event.some => \A i \in 1..Len(events.list) : candidates[i].value = 0

\* C18 as stated: a pick-another request always re-runs the selection: in every state
\* in which it can be made, in any phase, paused or not, with the sync state Ready or
\* InFlight, the task shown after it is the outcome of a fresh choose over the task
\* list.
C18_AsStated == (frame.ran /\ frame.click = "New task") => (alive /\ FreshChoice)

\* C19: once a task is shown no automatic step changes or clears it: the ticks of the
\* orchestrator, the phase transitions, Start, Stop, Skip, Pause, Resume, Reload and
\* the arrival of a new Ready list leave the shown task as it is; only a pick-another
\* request changes it.
C19_ShownTaskKept ==
    [][/\ (chosen_event.some /\ chosen_event' # chosen_event) =>
             (frame'.ran /\ frame'.click = "New task")
       /\ (chosen_event.some /\ frame'.ran) => frame'.shown_mid]_vars

\* task a is still shown after a Reload brought a Ready list without it and the
\* phase went from Working to a break
C19_Witness ==
    /\ chosen_event = Some(TaskA)
    /\ events = Ready(<<TaskB>>)
    /\ ready_gen = 2
    /\ timer.tag \in {"ShortBreak", "LongBreak"}
    /\ frame.ran
    /\ frame.click = "none"

\* C20: time spent paused never counts toward a phase: the pause-adjusted now of a
\* frame is the clock less the time spent paused, so it is the now of the frame that
\* began the pause in every frame of the pause, the Resume frame included, and in the
\* first frame after Resume; no phase changes while paused unless Skip, Start or Stop
\* is clicked; and with the phase left alone the remaining time drawn at and after
\* Resume is the one drawn at Pause.
C20_PausedTimeNotCounted ==
    [][/\ frame'.ran => frame'.now = clock' - pause'.idle
       /\ (paused_at.some /\ frame'.ran) => frame'.now = pause.now
       /\ (paused_at.some /\ timer' # timer) =>
             (frame'.ran /\ frame'.click \in {"Skip", "Start", "Stop"})
       /\ (paused_at.some /\ frame'.ran /\ alive' /\ pause.kept /\ timer' = timer) =>
             frame'.remaining = pause.remaining
       /\ (frame.ran /\ frame.click = "Resume" /\ frame'.ran) =>
             /\ frame'.now = pause.now
             /\ (pause.kept /\ alive' /\ frame'.click \notin {"Skip", "Start", "Stop"}) =>
                   /\ timer' = timer
                   /\ frame'.remaining = pause.remaining]_vars

\* a Working phase of 2 time units paused after 1 and resumed 2 time units later: the
\* frame after the Resume still draws 1 time unit remaining
C20_Witness ==
    /\ settings.work_time = 2
    /\ timer = Working(0, 0)
    /\ clock = 3
    /\ pause.idle = 2
    /\ ~paused_at.some
    /\ paused_for = 2
    /\ frame.ran
    /\ frame.ticked
    /\ frame.click = "none"
    /\ frame.now = 1
    /\ frame.remaining = 1

\* ------------------------------------------------------------------ claims on the parser

\* the grammar DATE ["T" TIME ["Z"]]: 8 digits, then nothing or T and 6 digits, then
\* nothing or Z, and nothing else
MatchesGrammar(text) ==
    /\ Len(text) \in {8, 15, 16}
    /\ \A i \in 1..8 : text[i] \in Digits
    /\ Len(text) >= 15 => (text[9] = "T" /\ \A i \in 10..15 : text[i] \in Digits)
    /\ Len(text) = 16 => text[16] = "Z"

\* C10 as stated: the parser accepts exactly the grammar; a text with a wrong digit
\* count, a partial match or trailing characters after a complete match yields a
\* parse failure and not an instant.
C10_AsStated == (parsed.kind # "NotParsed" /\ ~MatchesGrammar(input)) => parsed.kind # "Ok"

\* ------------------------------------------------------------------ claims on the refresh

\* C11 as stated: whatever the texts of the dtstamp, dtstart and due properties, dates
\* and times that do not exist included, parsing gives an instant or a failure taken
\* as the absent value and never aborts the refresh, so no poll dies on a refresh
\* that the content of an item aborted.
C11_AsStated == alive \/ \A g \in 1..Len(tasks) : tasks[g].status # "panicked"

\* the raw item has a property of this name, whatever the letter case of the name
ItemHas(item, name) == \E i \in 1..Len(item) : to_lowercase(item[i][1]) = name

\* the raw item has a property of this name and value
ItemValue(item, name, value) ==
    \E i \in 1..Len(item) : to_lowercase(item[i][1]) = name /\ item[i][2] = value

\* the raw item is completed or recurring
Excluded(item) ==
    \/ ItemValue(item, "status", "COMPLETED")
    \/ ItemHas(item, "completed")
    \/ ItemValue(item, "percent-complete", "100")
    \/ ItemHas(item, "rrule")

\* the uid of the raw item
UidOf(item) == Properties(item)["uid"]

\* the list made of what task g fetched: the result it holds, or the Ready list
ListOf(g) ==
    IF tasks[g].status = "finished" THEN tasks[g].result
    ELSE IF events.state = "Ready" /\ ready_gen = g THEN events.list
    ELSE <<>>

\* C12: a raw item with status COMPLETED, or with a completed property, or with
\* percent-complete 100, or with an rrule property, is in no list a refresh returns
\* and so in no Ready list, whatever its other properties and the letter case of its
\* property names.
C12_Filtered ==
    \A g \in 1..Len(tasks) :
        \A k \in 1..Len(tasks[g].raw) :
            Excluded(tasks[g].raw[k]) =>
                \A i \in 1..Len(ListOf(g)) : ListOf(g)[i].uid # UidOf(tasks[g].raw[k])

\* a refresh fetched a completed item (lowercase names) and an open one; the Ready
\* list holds the open one alone
C12_Witness ==
    /\ events = Ready(<<Event("a", None, None, 1)>>)
    /\ ready_gen = 1
    /\ tasks[1].status = "joined"
    /\ Len(tasks[1].raw) = 2
    /\ UidOf(tasks[1].raw[1]) = "d"
    /\ Excluded(tasks[1].raw[1])
    /\ UidOf(tasks[1].raw[2]) = "a"

====
